---- MODULE Spec2Model ----
(***************************************************************************)
(* curl_to_kodi: a curl command is scanned for its first URL and its -H    *)
(* headers; the result is serialised as a Kodi .strm line and, on request, *)
(* as a yt-dlp command written to a sh / bat / ps1 script.                 *)
(*                                                                         *)
(* A Python str is modelled as a sequence of one-character strings, so     *)
(* that scanning, splitting, quoting and percent-encoding are computed     *)
(* character by character.  None is the one-element sequence <<"None">>,   *)
(* which no str equals (every element of a str has length one).            *)
(***************************************************************************)
EXTENDS Integers, Sequences, FiniteSets, TLC

VARIABLES
    pc,                  \* position of the run
    name, cleaned, recleaned,                 \* sanitize_filename: argument, result, result of the result
    frags, curl_command, allowed_headers, include_all_headers,   \* parse_curl: arguments
    url, headers,        \* parse_curl's result; a dict is a sequence of <<key, value>>
    strm_content,        \* kodi_strm_content's result
    output_name, yt_args,                     \* construct_yt_dlp_args: argument, result
    fmt, joined,         \* script dialect and the joiner's one-line output
    argv, clipboard, base_output, files, stdout, rc   \* main: options, environment, effects

sanVars   == <<name, cleaned, recleaned>>
parseVars == <<frags, curl_command, allowed_headers, include_all_headers>>
dataVars  == <<url, headers>>
argsVars  == <<output_name, yt_args>>
joinVars  == <<fmt, joined>>
mainVars  == <<argv, clipboard, base_output, files, stdout, rc>>
vars == <<pc, sanVars, parseVars, dataVars, strm_content, argsVars, joinVars, mainVars>>

None == <<"None">>

(***************************************************************************)
(* Characters                                                              *)
(***************************************************************************)
UpperCase == <<"A","B","C","D","E","F","G","H","I","J","K","L","M",
               "N","O","P","Q","R","S","T","U","V","W","X","Y","Z">>
LowerCase == <<"a","b","c","d","e","f","g","h","i","j","k","l","m",
               "n","o","p","q","r","s","t","u","v","w","x","y","z">>
Digits    == <<"0","1","2","3","4","5","6","7","8","9">>
\* code points 32..126 in order (96, the grave accent, by name: it never occurs)
Ascii == <<" ","!","\"","#","$","%","&","'","(",")","*","+",",","-",".","/">>
         \o Digits \o <<":",";","<","=",">","?","@">> \o UpperCase
         \o <<"[","\\","]","^","_","grave">> \o LowerCase \o <<"{","|","}","~">>

Range(s) == {s[i] : i \in DOMAIN s}

Letters == Range(UpperCase) \cup Range(LowerCase)
AlNum   == Letters \cup Range(Digits)

\* str.isspace / the regex class \s, on the characters that occur
IsSpace(c) == c \in {" ", "\t", "\n"}

\* ord(c)
Ord(c) == IF c = "\t" THEN 9 ELSE IF c = "\n" THEN 10
          ELSE 31 + (CHOOSE i \in DOMAIN Ascii : Ascii[i] = c)

\* str.lower, one character
LowerChar(c) == IF \E i \in DOMAIN UpperCase : UpperCase[i] = c
                THEN LowerCase[CHOOSE i \in DOMAIN UpperCase : UpperCase[i] = c]
                ELSE c

\* str.lower
Lower(s) == [i \in DOMAIN s |-> LowerChar(s[i])]

(***************************************************************************)
(* str helpers                                                             *)
(***************************************************************************)
\* s[i-1:] in Python terms: the suffix that starts at (1-based) position i
From(s, i) == SubSeq(s, i, Len(s))

\* str.find / str.rfind, 1-based, 0 when absent
Find(s, c)  == IF \E i \in DOMAIN s : s[i] = c
               THEN CHOOSE i \in DOMAIN s : s[i] = c /\ \A j \in 1..(i-1) : s[j] # c
               ELSE 0
RFind(s, c) == IF \E i \in DOMAIN s : s[i] = c
               THEN CHOOSE i \in DOMAIN s : s[i] = c /\ \A j \in (i+1)..Len(s) : s[j] # c
               ELSE 0

\* whether t occurs in s at position i
StartsAt(s, i, t) == /\ i >= 1
                     /\ i + Len(t) - 1 <= Len(s)
                     /\ \A j \in 1..Len(t) : s[i + j - 1] = t[j]

\* whether t (in lower case) occurs in s at position i, case ignored
StartsAtIgnoreCase(s, i, t) == /\ i >= 1
                               /\ i + Len(t) - 1 <= Len(s)
                               /\ \A j \in 1..Len(t) : LowerChar(s[i + j - 1]) = t[j]

\* str.strip()
Strip(s) ==
    LET keep == {i \in DOMAIN s : ~IsSpace(s[i])}
    IN  IF keep = {} THEN <<>>
        ELSE LET lo == CHOOSE i \in keep : \A j \in keep : i <= j
                 hi == CHOOSE i \in keep : \A j \in keep : i >= j
             IN  SubSeq(s, lo, hi)

\* "".join(parts)
RECURSIVE Concat(_)
Concat(parts) == IF parts = <<>> THEN <<>> ELSE Head(parts) \o Concat(Tail(parts))

\* sep.join(parts)
RECURSIVE Join(_, _)
Join(sep, parts) == IF parts = <<>> THEN <<>>
                    ELSE IF Len(parts) = 1 THEN parts[1]
                    ELSE parts[1] \o sep \o Join(sep, Tail(parts))

\* every str over alphabet A of length at most n
StrUpTo(A, n) == UNION {[1..k -> A] : k \in 0..n}

(***************************************************************************)
(* sanitize_filename                                                       *)
(***************************************************************************)
\* os.path.splitext(p)[0] (posixpath): the extension starts at the last dot
\* of the last path segment, unless only dots precede it in that segment
splitext_root(p) ==
    LET sepIndex == RFind(p, "/")
        dotIndex == RFind(p, ".")
    IN  IF dotIndex > sepIndex /\ \E i \in (sepIndex+1)..(dotIndex-1) : p[i] # "."
        THEN SubSeq(p, 1, dotIndex - 1)
        ELSE p

\* the character class of the pattern at line 67: its leading backslash
\* escapes the slash that follows, so the class holds no backslash
SanitizeClass == {"/", "*", "?", ":", "\"", "<", ">", "|"}

\* re.sub(pattern, "_", base)
sub_invalid(base) == [i \in DOMAIN base |-> IF base[i] \in SanitizeClass THEN "_" ELSE base[i]]

\* re.sub(..., count=1): only the first occurrence is replaced
sub_invalid_first(base) ==
    LET hits == {i \in DOMAIN base : base[i] \in SanitizeClass}
    IN  IF hits = {} THEN base
        ELSE LET f == CHOOSE i \in hits : \A j \in hits : i <= j
             IN  [base EXCEPT ![f] = "_"]

sanitize_filename_first(label) ==
    LET cleanedL == sub_invalid_first(splitext_root(label))
    IN  IF cleanedL # <<>> THEN cleanedL ELSE <<"o","u","t","p","u","t">>

sanitize_filename(label) ==
    LET cleanedL == sub_invalid(splitext_root(label))
    IN  IF cleanedL # <<>> THEN cleanedL ELSE <<"o","u","t","p","u","t">>

(***************************************************************************)
(* Idle values of the variables a specification does not use               *)
(***************************************************************************)
IdleSan   == name = None /\ cleaned = None /\ recleaned = None
IdleParse == frags = <<>> /\ curl_command = None /\ allowed_headers = None
             /\ include_all_headers = FALSE
IdleData  == url = None /\ headers = <<>>
IdleStrm  == strm_content = None
IdleArgs  == output_name = None /\ yt_args = <<>>
IdleJoin  == fmt = "sh" /\ joined = None
IdleMain  == argv = <<>> /\ clipboard = None /\ base_output = None
             /\ files = <<>> /\ stdout = <<>> /\ rc = -1

(***************************************************************************)
(* SpecSanitize: sanitize_filename applied to a label, then to its result  *)
(***************************************************************************)
MaxLabelLen == 4

LabelAlphabet == {"a", ".", "/", "\\", ":", "*"}

\* labels of the documentation and tests, and one holding every character
\* the sanitizer is documented to replace
LabelExamples == {
    <<"a",".","b",".","c">>,
    <<"m","o","v","i","e",".","m","p","4">>,
    <<"b","a","d",":","n","a","m","e","*","h","e","r","e","?",".","m","p","4">>,
    <<"M","o","v","i","e",":"," ","\"","B","e","s","t","/","S","t","r","e","a","m","?","\"">>,
    <<"\\","/","*","?",":","\"","<",">","|">> }

Labels == StrUpTo(LabelAlphabet, MaxLabelLen) \cup LabelExamples

InitSanitize ==
    /\ pc = "start"
    /\ name \in Labels
    /\ cleaned = None /\ recleaned = None
    /\ IdleParse /\ IdleData /\ IdleStrm /\ IdleArgs /\ IdleJoin /\ IdleMain

Sanitize ==
    /\ pc = "start"
    /\ cleaned' = sanitize_filename(name)
    /\ pc' = "sanitized"
    /\ UNCHANGED <<name, recleaned, parseVars, dataVars, strm_content, argsVars, joinVars, mainVars>>

Resanitize ==
    /\ pc = "sanitized"
    /\ recleaned' = sanitize_filename(cleaned)
    /\ pc' = "resanitized"
    /\ UNCHANGED <<name, cleaned, parseVars, dataVars, strm_content, argsVars, joinVars, mainVars>>

NextSanitize == Sanitize \/ Resanitize

SpecSanitize == InitSanitize /\ [][NextSanitize]_vars

\* C5 (as stated): sanitize_filename(sanitize_filename(x)) = sanitize_filename(x)
\* for every label x, labels with several dots included.
C5_IdempotentAll == pc = "resanitized" => recleaned = cleaned

\* C5 (amended): sanitize_filename(sanitize_filename(x)) = sanitize_filename(x)
\* for every label x whose sanitized form carries no extension, that is,
\* whenever os.path.splitext leaves sanitize_filename(x) unchanged.
C5_IdempotentNoExt ==
    (pc = "resanitized" /\ splitext_root(cleaned) = cleaned) => recleaned = cleaned

\* a label with two invalid characters has been sanitized twice and its
\* sanitized form carries no extension
C5_Witness ==
    /\ pc = "resanitized"
    /\ Cardinality({i \in DOMAIN name : name[i] \in SanitizeClass}) >= 2
    /\ splitext_root(cleaned) = cleaned
    /\ cleaned # name

\* C6: the result of sanitize_filename holds none of the nine characters
\* backslash, slash, star, question mark, colon, double quote, less-than,
\* greater-than and bar.
InvalidFilenameChars == {"\\", "/", "*", "?", ":", "\"", "<", ">", "|"}

C6_NoInvalidChars ==
    pc \in {"sanitized", "resanitized"} => \A i \in DOMAIN cleaned : cleaned[i] \notin InvalidFilenameChars

(***************************************************************************)
(* parse_curl                                                              *)
(***************************************************************************)
_ALLOWED_HEADERS == { <<"c","o","o","k","i","e">>,
                      <<"o","r","i","g","i","n">>,
                      <<"r","e","f","e","r","e","r">>,
                      <<"u","s","e","r","-","a","g","e","n","t">> }

\* an absent allowed_headers argument; a supplied one is a list of names
NoneList == <<None>>

Whitespace == {" ", "\t", "\n"}
Quotes     == {"'", "\""}

\* the last position of the longest run from i on that holds no character of stop
RunEnd(t, i, stop) ==
    IF \E j \in i..Len(t) : t[j] \in stop
    THEN (CHOOSE j \in i..Len(t) : t[j] \in stop /\ \A k \in i..(j-1) : t[k] \notin stop) - 1
    ELSE Len(t)

\* the last position of the run of whitespace that starts at g
SpaceRunEnd(t, g) ==
    IF \E j \in g..Len(t) : ~IsSpace(t[j])
    THEN (CHOOSE j \in g..Len(t) : ~IsSpace(t[j]) /\ \A k \in g..(j-1) : IsSpace(t[k])) - 1
    ELSE Len(t)

\* group 1 of _URL_PATTERN matched with the scheme at q, or None:
\* http, an optional s, ://, then one or more characters that are neither
\* whitespace nor a quote
url_match_at(t, q) ==
    LET a == IF StartsAt(t, q, <<"h","t","t","p","s",":","/","/">>) THEN q + 8
             ELSE IF StartsAt(t, q, <<"h","t","t","p",":","/","/">>) THEN q + 7
             ELSE 0
        e == RunEnd(t, a, Whitespace \cup Quotes)
    IN  IF a # 0 /\ e >= a THEN SubSeq(t, q, e) ELSE None

\* _URL_PATTERN.search(t): group 1 of the leftmost match, or None
url_search(t) ==
    LET hits == {q \in DOMAIN t : url_match_at(t, q) # None}
    IN  IF hits = {} THEN None
        ELSE url_match_at(t, CHOOSE q \in hits : \A r \in hits : q <= r)

\* the value part of _HEADER_PATTERN from g on: whitespace, then a
\* single-quoted, a double-quoted or a bare token.  <<raw, end>> or <<>>
header_value_at(t, g) ==
    IF g > Len(t) \/ ~IsSpace(t[g]) THEN <<>>
    ELSE LET v == SpaceRunEnd(t, g) + 1
         IN  IF v > Len(t) THEN <<>>
             ELSE LET c == IF t[v] \in Quotes /\ \E j \in (v+1)..Len(t) : t[j] = t[v]
                           THEN CHOOSE j \in (v+1)..Len(t) :
                                    t[j] = t[v] /\ \A k \in (v+1)..(j-1) : t[k] # t[v]
                           ELSE 0
                      e == RunEnd(t, v, Whitespace)
                  IN  IF c >= v + 2 THEN <<SubSeq(t, v + 1, c - 1), c>>
                      ELSE <<SubSeq(t, v, e), e>>

\* the flag of _HEADER_PATTERN at f (-H or --header, re.IGNORECASE), then
\* the value.  <<raw, end>> or <<>>
header_flag_at(t, f) ==
    IF StartsAtIgnoreCase(t, f, <<"-","h">>) THEN header_value_at(t, f + 2)
    ELSE IF StartsAtIgnoreCase(t, f, <<"-","-","h","e","a","d","e","r">>)
         THEN header_value_at(t, f + 8)
    ELSE <<>>

\* _HEADER_PATTERN matched at p: the start of the text or one whitespace
\* character, then the flag
header_match_at(t, p) ==
    IF p = 1 /\ header_flag_at(t, 1) # <<>> THEN header_flag_at(t, 1)
    ELSE IF IsSpace(t[p]) THEN header_flag_at(t, p + 1)
    ELSE <<>>

\* _HEADER_PATTERN.findall(t) from pos on: the scan tries each position in
\* turn and resumes after a match; per match, h1 or h2 or h3
RECURSIVE findall_headers(_, _)
findall_headers(t, pos) ==
    IF pos > Len(t) THEN <<>>
    ELSE LET m == header_match_at(t, pos)
         IN  IF m # <<>> THEN <<m[1]>> \o findall_headers(t, m[2] + 1)
             ELSE findall_headers(t, pos + 1)

\* headers[k] = v: a key already present keeps its place and takes the new value
DictSet(d, k, v) ==
    IF \E i \in DOMAIN d : d[i][1] = k
    THEN [i \in DOMAIN d |-> IF d[i][1] = k THEN <<k, v>> ELSE d[i]]
    ELSE Append(d, <<k, v>>)

\* allow = set(h.lower() for h in (allowed_headers or _ALLOWED_HEADERS)):
\* an empty list is falsy, like None
allow_set(allowed) ==
    IF allowed = NoneList \/ allowed = <<>> THEN {Lower(h) : h \in _ALLOWED_HEADERS}
    ELSE {Lower(allowed[i]) : i \in DOMAIN allowed}

\* the loop of parse_curl over the raw header texts
RECURSIVE collect_headers(_, _, _, _)
collect_headers(raws, allow, include_all, acc) ==
    IF raws = <<>> THEN acc
    ELSE LET raw == Head(raws)
             c   == Find(raw, ":")
             k   == Strip(SubSeq(raw, 1, c - 1))
             v   == Strip(From(raw, c + 1))
         IN  IF c = 0 THEN collect_headers(Tail(raws), allow, include_all, acc)
             ELSE IF include_all \/ Lower(k) \in allow
                  THEN collect_headers(Tail(raws), allow, include_all, DictSet(acc, k, v))
                  ELSE collect_headers(Tail(raws), allow, include_all, acc)

\* parse_curl(curl_command, allowed_headers=..., include_all_headers=...)
parse_curl(text, allowed, include_all) ==
    <<url_search(text),
      collect_headers(findall_headers(text, 1), allow_set(allowed), include_all, <<>>)>>

(***************************************************************************)
(* SpecParse: parse_curl on commands assembled from header flags           *)
(***************************************************************************)
MaxHeaderFlags == 3

\* the header flags a command is assembled from; name and value are what
\* the flag says, colon whether its text holds a colon
HeaderFlags == <<
  [text  |-> <<" ","-","H"," ","'","U","s","e","r","-","A","g","e","n","t",":"," ","U","A","/","1",".","0","'">>,
   colon |-> TRUE, name |-> <<"U","s","e","r","-","A","g","e","n","t">>, value |-> <<"U","A","/","1",".","0">>],
  [text  |-> <<" ","-","H"," ","'","u","s","e","r","-","a","g","e","n","t",":"," ","u","a","2","'">>,
   colon |-> TRUE, name |-> <<"u","s","e","r","-","a","g","e","n","t">>, value |-> <<"u","a","2">>],
  [text  |-> <<" ","-","H"," ","'","U","s","e","r","-","A","g","e","n","t",":"," ","K","o","d","i","/","1","9","'">>,
   colon |-> TRUE, name |-> <<"U","s","e","r","-","A","g","e","n","t">>, value |-> <<"K","o","d","i","/","1","9">>],
  [text  |-> <<" ","-","H"," ","'","A","u","t","h","o","r","i","z","a","t","i","o","n",":"," ","B","e","a","r","e","r"," ","T","'">>,
   colon |-> TRUE, name |-> <<"A","u","t","h","o","r","i","z","a","t","i","o","n">>, value |-> <<"B","e","a","r","e","r"," ","T">>],
  [text  |-> <<" ","-","-","h","e","a","d","e","r"," ","\"","C","o","o","k","i","e",":"," ","a","=","b","\"">>,
   colon |-> TRUE, name |-> <<"C","o","o","k","i","e">>, value |-> <<"a","=","b">>],
  [text  |-> <<" ","-","H"," ","O","t","h","e","r",":","v","a","l","u","e">>,
   colon |-> TRUE, name |-> <<"O","t","h","e","r">>, value |-> <<"v","a","l","u","e">>],
  [text  |-> <<" ","-","H"," ","'","n","o","c","o","l","o","n","'">>,
   colon |-> FALSE, name |-> <<>>, value |-> <<>>] >>

ExampleUrl == <<"h","t","t","p","s",":","/","/","e","x","a","m","p","l","e",".","c","o","m","/","v","i","d","e","o",".","m","p","4">>

\* curl, the quoted URL when there is one, then the chosen flags
CommandText(withUrl, fs) ==
    <<"c","u","r","l">>
    \o (IF withUrl THEN <<" ", "'">> \o ExampleUrl \o <<"'">> ELSE <<>>)
    \o Concat([i \in DOMAIN fs |-> HeaderFlags[fs[i]].text])

AllowLists == { NoneList,
                <<>>,
                << <<"A","u","t","h","o","r","i","z","a","t","i","o","n">> >>,
                << <<"O","T","H","E","R">>, <<"c","o","o","k","i","e">> >> }

InitParse ==
    /\ pc = "start"
    /\ frags \in UNION {[1..k -> DOMAIN HeaderFlags] : k \in 0..MaxHeaderFlags}
    /\ \E withUrl \in BOOLEAN : curl_command = CommandText(withUrl, frags)
    /\ \/ include_all_headers = FALSE /\ allowed_headers \in AllowLists
       \/ include_all_headers = TRUE /\ allowed_headers = NoneList
    /\ IdleData
    /\ IdleSan /\ IdleStrm /\ IdleArgs /\ IdleJoin /\ IdleMain

Parse ==
    /\ pc = "start"
    /\ LET r == parse_curl(curl_command, allowed_headers, include_all_headers)
       IN  url' = r[1] /\ headers' = r[2]
    /\ pc' = "parsed"
    /\ UNCHANGED <<sanVars, parseVars, strm_content, argsVars, joinVars, mainVars>>

NextParse == Parse

SpecParse == InitParse /\ [][NextParse]_vars

\* the allow-set the caller asked for: the default when none is supplied,
\* otherwise the supplied names, of any number
RequestedAllow ==
    IF allowed_headers = NoneList THEN _ALLOWED_HEADERS
    ELSE {Lower(allowed_headers[i]) : i \in DOMAIN allowed_headers}

\* C1: with include_all_headers false, every name of the returned map is,
\* lower-cased, in the requested allow-set, and every flag with a colon
\* whose lower-cased name is in that set is in the map.
C1_FilterByAllowSet ==
    (pc = "parsed" /\ ~include_all_headers) =>
        /\ \A i \in DOMAIN headers : Lower(headers[i][1]) \in RequestedAllow
        /\ \A j \in DOMAIN frags :
              (HeaderFlags[frags[j]].colon /\ Lower(HeaderFlags[frags[j]].name) \in RequestedAllow)
              => \E i \in DOMAIN headers : headers[i][1] = HeaderFlags[frags[j]].name

\* the same for every call but the one that supplies an empty allow-set
FilterByNonEmptyAllowSet ==
    (pc = "parsed" /\ ~include_all_headers /\ allowed_headers # <<>>) =>
        /\ \A i \in DOMAIN headers : Lower(headers[i][1]) \in RequestedAllow
        /\ \A j \in DOMAIN frags :
              (HeaderFlags[frags[j]].colon /\ Lower(HeaderFlags[frags[j]].name) \in RequestedAllow)
              => \E i \in DOMAIN headers : headers[i][1] = HeaderFlags[frags[j]].name

\* the flags of the command that parse_curl accepts
AcceptedFlags ==
    {j \in DOMAIN frags :
        /\ HeaderFlags[frags[j]].colon
        /\ include_all_headers \/ Lower(HeaderFlags[frags[j]].name) \in allow_set(allowed_headers)}

\* C2: accepted flags whose names are equal without regard to
\* case share one entry of the map, with the value of the last of them.
C2_LastWinsIgnoringCase ==
    pc = "parsed" =>
        \A j \in AcceptedFlags :
            LET same == {k \in AcceptedFlags :
                            Lower(HeaderFlags[frags[k]].name) = Lower(HeaderFlags[frags[j]].name)}
                last == CHOOSE k \in same : \A m \in same : k >= m
                hits == {i \in DOMAIN headers :
                            Lower(headers[i][1]) = Lower(HeaderFlags[frags[j]].name)}
            IN  /\ Cardinality(hits) = 1
                /\ \A i \in hits : headers[i][2] = HeaderFlags[frags[last]].value

\* the same for names that are equal character for character: those share
\* one entry, with the value of the last of them
LastWinsExactName ==
    pc = "parsed" =>
        \A j \in AcceptedFlags :
            LET same == {k \in AcceptedFlags :
                            HeaderFlags[frags[k]].name = HeaderFlags[frags[j]].name}
                last == CHOOSE k \in same : \A m \in same : k >= m
                hits == {i \in DOMAIN headers : headers[i][1] = HeaderFlags[frags[j]].name}
            IN  /\ Cardinality(hits) = 1
                /\ \A i \in hits : headers[i][2] = HeaderFlags[frags[last]].value

(***************************************************************************)
(* kodi_strm_content                                                       *)
(***************************************************************************)
\* a raised ValueError, in place of a result
ValueError == <<"ValueError">>

HexDigits == <<"0","1","2","3","4","5","6","7","8","9","A","B","C","D","E","F">>

\* urllib.parse.quote(v, safe=""): nothing but letters, digits and _.-~ is kept
quote_nothing_safe(v) ==
    Concat([i \in DOMAIN v |->
        IF v[i] \in AlNum \cup {"_", ".", "-", "~"} THEN <<v[i]>>
        ELSE <<"%", HexDigits[(Ord(v[i]) \div 16) + 1], HexDigits[(Ord(v[i]) % 16) + 1]>>])

\* urllib.parse.quote(v): letters, digits, _.-~ and the default safe
\* character / are kept, any other character becomes % and two hex digits
quote(v) ==
    Concat([i \in DOMAIN v |->
        IF v[i] \in AlNum \cup {"_", ".", "-", "~"} \cup {"/"} THEN <<v[i]>>
        ELSE <<"%", HexDigits[(Ord(v[i]) \div 16) + 1], HexDigits[(Ord(v[i]) % 16) + 1]>>])

kodi_strm_content(u, H) ==
    IF u = None \/ u = <<>> THEN ValueError
    ELSE IF H # <<>>
         THEN u \o <<"|">> \o Join(<<"&">>, [i \in DOMAIN H |-> H[i][1] \o <<"=">> \o quote(H[i][2])])
         ELSE u

(***************************************************************************)
(* SpecStrm: kodi_strm_content on URLs and header maps                     *)
(***************************************************************************)
MaxMapSize == 2

StrmUrls == { <<>>,
              <<"h","t","t","p","s",":","/","/","e","x","a","m","p","l","e",".","c","o","m","/","v","i","d",".","m","p","4">>,
              <<"h","t","t","p",":","/","/","h","/","v">> }

MapNames  == { <<"U","s","e","r","-","A","g","e","n","t">>,
               <<"R","e","f","e","r","e","r">>,
               <<"C","o","o","k","i","e">> }
MapValues == { <<"U","A","/","1",".","0">>,
               <<"h","t","t","p","s",":","/","/","r","e","f">>,
               <<"a"," ","b","&","c">>,
               <<>> }

\* the dicts of at most n entries: keys are distinct, order is insertion order
HeaderMaps(n) ==
    {H \in UNION {[1..k -> MapNames \X MapValues] : k \in 0..n} :
        \A i, j \in DOMAIN H : i # j => H[i][1] # H[j][1]}

InitStrm ==
    /\ pc = "start"
    /\ url \in StrmUrls
    /\ headers \in HeaderMaps(MaxMapSize)
    /\ strm_content = None
    /\ IdleSan /\ IdleParse /\ IdleArgs /\ IdleJoin /\ IdleMain

Compose ==
    /\ pc = "start"
    /\ strm_content' = kodi_strm_content(url, headers)
    /\ pc' = IF kodi_strm_content(url, headers) = ValueError THEN "raised" ELSE "composed"
    /\ UNCHANGED <<sanVars, parseVars, dataVars, argsVars, joinVars, mainVars>>

NextStrm == Compose

SpecStrm == InitStrm /\ [][NextStrm]_vars

\* the escapes of the characters that occur in header values; the slash is
\* escaped or kept as the reading says
EscapeOf(c, slashEscaped) ==
    CASE c = ":" -> <<"%","3","A">>
      [] c = " " -> <<"%","2","0">>
      [] c = "&" -> <<"%","2","6">>
      [] c = "=" -> <<"%","3","D">>
      [] c = "/" -> IF slashEscaped THEN <<"%","2","F">> ELSE <<"/">>
      [] OTHER   -> <<c>>

RECURSIVE Escaped(_, _)
Escaped(v, slashEscaped) ==
    IF v = <<>> THEN <<>>
    ELSE EscapeOf(Head(v), slashEscaped) \o Escaped(Tail(v), slashEscaped)

\* url, then | before the first entry and & before each later one, each
\* entry as name = escaped value
RECURSIVE Rendered(_, _, _, _)
Rendered(u, H, i, slashEscaped) ==
    IF i > Len(H) THEN u
    ELSE Rendered(u \o (IF i = 1 THEN <<"|">> ELSE <<"&">>)
                    \o H[i][1] \o <<"=">> \o Escaped(H[i][2], slashEscaped),
                  H, i + 1, slashEscaped)

RECURSIVE add_header_args(_)
add_header_args(H) ==
    IF H = <<>> THEN <<>>
    ELSE << <<"-","-","a","d","d","-","h","e","a","d","e","r">>,
            Head(H)[1] \o <<":", " ">> \o Head(H)[2] >> \o add_header_args(Tail(H))

\* the output template is appended for every name that is not None
construct_yt_dlp_args_not_none(u, H, out) ==
    << <<"y","t","-","d","l","p">> >> \o add_header_args(H) \o <<u>>
    \o (IF out # None
        THEN << <<"-","o">>, out \o <<".","%","(","e","x","t",")","s">> >>
        ELSE <<>>)

\* "if output_name:" is false for None and for the empty string
construct_yt_dlp_args(u, H, out) ==
    << <<"y","t","-","d","l","p">> >> \o add_header_args(H) \o <<u>>
    \o (IF out # None /\ out # <<>>
        THEN << <<"-","o">>, out \o <<".","%","(","e","x","t",")","s">> >>
        ELSE <<>>)

(***************************************************************************)
(* SpecArgs: construct_yt_dlp_args on URLs, header maps and output names   *)
(***************************************************************************)
OutputNames == { None, <<>>, <<"o","u","t">>, <<"a",".","b">> }

InitArgs ==
    /\ pc = "start"
    /\ url \in StrmUrls \ {<<>>}
    /\ headers \in HeaderMaps(MaxMapSize)
    /\ output_name \in OutputNames
    /\ yt_args = <<>>
    /\ IdleSan /\ IdleParse /\ IdleStrm /\ IdleJoin /\ IdleMain

Construct ==
    /\ pc = "start"
    /\ yt_args' = construct_yt_dlp_args(url, headers, output_name)
    /\ pc' = "constructed"
    /\ UNCHANGED <<sanVars, parseVars, dataVars, strm_content, output_name, joinVars, mainVars>>

NextArgs == Construct

SpecArgs == InitArgs /\ [][NextArgs]_vars

\* yt-dlp first, a flag and "name: value" per header in order, then the URL
ArgsPrefixOK ==
    /\ Len(yt_args) >= 2 + 2 * Len(headers)
    /\ yt_args[1] = <<"y","t","-","d","l","p">>
    /\ \A i \in DOMAIN headers :
          /\ yt_args[2 * i] = <<"-","-","a","d","d","-","h","e","a","d","e","r">>
          /\ yt_args[2 * i + 1] = headers[i][1] \o <<":", " ">> \o headers[i][2]
    /\ yt_args[2 + 2 * Len(headers)] = url

\* the vector ends with -o and <output_name>.%(ext)s and has 4 + 2|H| elements
ArgsWithOutput ==
    /\ Len(yt_args) = 4 + 2 * Len(headers)
    /\ yt_args[Len(yt_args) - 1] = <<"-","o">>
    /\ yt_args[Len(yt_args)] = output_name \o <<".","%","(","e","x","t",")","s">>

\* C7 (as stated): the prefix above, and the output pair whenever an
\* output name is present; 2 + 2|H| elements without it, 4 + 2|H| with it.
C7_ArgsOutputWhenPresent ==
    pc = "constructed" =>
        /\ ArgsPrefixOK
        /\ IF output_name # None THEN ArgsWithOutput
           ELSE Len(yt_args) = 2 + 2 * Len(headers)

\* C7 (amended): the prefix above, and the output pair whenever an output
\* name is present and not empty; 2 + 2|H| elements when it is absent or
\* empty, 4 + 2|H| otherwise.
C7_ArgsOutputWhenNonEmpty ==
    pc = "constructed" =>
        /\ ArgsPrefixOK
        /\ IF output_name # None /\ output_name # <<>> THEN ArgsWithOutput
           ELSE Len(yt_args) = 2 + 2 * Len(headers)

\* a vector was built from two headers and the output name out
C7_Witness ==
    /\ pc = "constructed"
    /\ Len(headers) = 2
    /\ output_name = <<"o","u","t">>
    /\ Len(yt_args) = 8

(***************************************************************************)
(* _sh_join, _bat_join, _ps1_join                                          *)
(***************************************************************************)
\* str.replace(c, by): every occurrence of the character c
ReplaceChar(s, c, by) == Concat([i \in DOMAIN s |-> IF s[i] = c THEN by ELSE <<s[i]>>])

\* the characters shlex.quote leaves unquoted: \w and @%+=:,./-
ShSafe == AlNum \cup {"_", "@", "%", "+", "=", ":", ",", ".", "/", "-"}

\* shlex.quote(a)
sh_quote(a) ==
    IF a = <<>> THEN <<"'", "'">>
    ELSE IF \A i \in DOMAIN a : a[i] \in ShSafe THEN a
    ELSE <<"'">> \o ReplaceChar(a, "'", <<"'","\"","'","\"","'">>) \o <<"'">>

\* shlex.join(args)
_sh_join(args) == Join(<<" ">>, [i \in DOMAIN args |-> sh_quote(args[i])])

BatSpecial == {"(", ")", "%", "!", "^", "&", "<", ">", "|", ",", ";"}

\* q of _bat_join
bat_quote(a) ==
    IF a = <<>> THEN <<"\"", "\"">>
    ELSE IF (\E i \in DOMAIN a : IsSpace(a[i])) \/ (\E i \in DOMAIN a : a[i] \in BatSpecial)
         THEN <<"\"">> \o ReplaceChar(a, "\"", <<"\"", "\"">>) \o <<"\"">>
    ELSE a

_bat_join(args) == Join(<<" ">>, [i \in DOMAIN args |-> bat_quote(args[i])])

Ps1Special == {"(", ")", "!", "^", "&", "<", ">", "|", ",", ";"}

\* q of _ps1_join
ps1_quote(a) ==
    IF a = <<>> THEN <<"'", "'">>
    ELSE IF \E i \in DOMAIN a : IsSpace(a[i]) \/ a[i] \in Ps1Special
         THEN <<"'">> \o ReplaceChar(a, "'", <<"'", "'">>) \o <<"'">>
    ELSE a

_ps1_join(args) == Join(<<" ">>, [i \in DOMAIN args |-> ps1_quote(args[i])])

\* the joiner main and write_shell_script select for a script format
join_for(f, args) ==
    IF f = "bat" THEN _bat_join(args)
    ELSE IF f = "ps1" THEN _ps1_join(args)
    ELSE _sh_join(args)

(***************************************************************************)
(* SpecJoin: an argument vector joined for one of the three dialects       *)
(***************************************************************************)
MaxArgs   == 2
MaxArgLen == 2

\* an ordinary character, whitespace, a metacharacter of every dialect, a
\* metacharacter of batch only, and the two quote characters
JoinAlphabet == {"a", " ", "&", "%", "'", "\""}

ScriptFormats == {"sh", "bat", "ps1"}

InitJoin ==
    /\ pc = "start"
    /\ yt_args \in UNION {[1..k -> StrUpTo(JoinAlphabet, MaxArgLen)] : k \in 1..MaxArgs}
    /\ fmt \in ScriptFormats
    /\ joined = None
    /\ output_name = None
    /\ IdleSan /\ IdleParse /\ IdleData /\ IdleStrm /\ IdleMain

JoinArgs ==
    /\ pc = "start"
    /\ joined' = join_for(fmt, yt_args)
    /\ pc' = "joined"
    /\ UNCHANGED <<sanVars, parseVars, dataVars, strm_content, argsVars, fmt, mainVars>>

NextJoin == JoinArgs

SpecJoin == InitJoin /\ [][NextJoin]_vars

\* The quoting rules of batch (quote character ") and PowerShell (quote
\* character '): whitespace separates arguments outside quotes, the quote
\* character opens and closes a quoted stretch, and inside one a doubled
\* quote character stands for itself.  A line that ends inside a quoted
\* stretch ends the stretch.
RECURSIVE TokenizeDoubling(_, _, _, _, _, _)
TokenizeDoubling(line, i, q, inQuote, cur, started) ==
    IF i > Len(line) THEN (IF started THEN <<cur>> ELSE <<>>)
    ELSE IF inQuote
         THEN IF line[i] = q
              THEN IF i < Len(line) /\ line[i + 1] = q
                   THEN TokenizeDoubling(line, i + 2, q, TRUE, Append(cur, q), TRUE)
                   ELSE TokenizeDoubling(line, i + 1, q, FALSE, cur, TRUE)
              ELSE TokenizeDoubling(line, i + 1, q, TRUE, Append(cur, line[i]), TRUE)
    ELSE IF IsSpace(line[i])
         THEN (IF started THEN <<cur>> ELSE <<>>)
              \o TokenizeDoubling(line, i + 1, q, FALSE, <<>>, FALSE)
    ELSE IF line[i] = q
         THEN TokenizeDoubling(line, i + 1, q, TRUE, cur, TRUE)
    ELSE TokenizeDoubling(line, i + 1, q, FALSE, Append(cur, line[i]), TRUE)

\* The quoting rules of the POSIX shell: whitespace separates arguments
\* outside quotes; '...' is literal; inside "..." a backslash escapes " and
\* backslash; outside quotes a backslash escapes the next character.
\* mode is "", "'" or "\"".
RECURSIVE TokenizePosix(_, _, _, _, _)
TokenizePosix(line, i, mode, cur, started) ==
    IF i > Len(line) THEN (IF started THEN <<cur>> ELSE <<>>)
    ELSE IF mode = "'"
         THEN IF line[i] = "'" THEN TokenizePosix(line, i + 1, "", cur, TRUE)
              ELSE TokenizePosix(line, i + 1, "'", Append(cur, line[i]), TRUE)
    ELSE IF mode = "\""
         THEN IF line[i] = "\"" THEN TokenizePosix(line, i + 1, "", cur, TRUE)
              ELSE IF line[i] = "\\" /\ i < Len(line) /\ line[i + 1] \in {"\"", "\\"}
                   THEN TokenizePosix(line, i + 2, "\"", Append(cur, line[i + 1]), TRUE)
              ELSE TokenizePosix(line, i + 1, "\"", Append(cur, line[i]), TRUE)
    ELSE IF IsSpace(line[i])
         THEN (IF started THEN <<cur>> ELSE <<>>) \o TokenizePosix(line, i + 1, "", <<>>, FALSE)
    ELSE IF line[i] \in {"'", "\""}
         THEN TokenizePosix(line, i + 1, line[i], cur, TRUE)
    ELSE IF line[i] = "\\" /\ i < Len(line)
         THEN TokenizePosix(line, i + 2, "", Append(cur, line[i + 1]), TRUE)
    ELSE TokenizePosix(line, i + 1, "", Append(cur, line[i]), TRUE)

Retokenized(f, line) ==
    IF f = "bat" THEN TokenizeDoubling(line, 1, "\"", FALSE, <<>>, FALSE)
    ELSE IF f = "ps1" THEN TokenizeDoubling(line, 1, "'", FALSE, <<>>, FALSE)
    ELSE TokenizePosix(line, 1, "", <<>>, FALSE)

\* C4: for each of the three dialects, re-tokenizing the joiner's line
\* under the dialect's quoting rules gives back the argument vector, for
\* vectors of ordinary characters, whitespace, the dialect's
\* metacharacters and its quote character.
C4_RoundTrip ==
    pc = "joined" => Retokenized(fmt, joined) = yt_args

\* the same for the POSIX shell alone
RoundTripPosix ==
    (pc = "joined" /\ fmt = "sh") => Retokenized(fmt, joined) = yt_args

\* the same for arguments in which the dialect's quote character comes
\* with whitespace or a metacharacter of the dialect, or not at all
RoundTripWhenQuoted ==
    (pc = "joined" /\ fmt # "sh"
       /\ \A k \in DOMAIN yt_args :
             LET a == yt_args[k]
                 q == IF fmt = "bat" THEN "\"" ELSE "'"
                 special == IF fmt = "bat" THEN BatSpecial ELSE Ps1Special
             IN  (\E i \in DOMAIN a : a[i] = q)
                 => \E i \in DOMAIN a : IsSpace(a[i]) \/ a[i] \in special)
    => Retokenized(fmt, joined) = yt_args

(***************************************************************************)
(* pathlib                                                                 *)
(***************************************************************************)
\* Path(p).name for a p without a slash: Path(".") is the empty path
path_name(p) == IF p = <<".">> THEN <<>> ELSE p

\* Path(p).suffix: from the last dot of the name on, unless that dot is
\* the first or the last character
path_suffix(p) ==
    LET n == path_name(p)
        d == RFind(n, ".")
    IN  IF 1 < d /\ d < Len(n) THEN From(n, d) ELSE <<>>

\* Path(p).with_suffix(suffix): the old suffix is replaced, a name without
\* one is extended; an empty name raises ValueError
with_suffix(p, suffix) ==
    LET n == path_name(p)
    IN  IF n = <<>> THEN ValueError
        ELSE SubSeq(n, 1, Len(n) - Len(path_suffix(p))) \o suffix

\* args.script_format as a str
format_name(f) ==
    IF f = "bat" THEN <<"b","a","t">>
    ELSE IF f = "ps1" THEN <<"p","s","1">>
    ELSE <<"s","h">>

\* the suffix write_shell_script maps a format to
script_suffix(f) ==
    IF f = "bat" THEN <<".","b","a","t">>
    ELSE IF f = "ps1" THEN <<".","p","s","1">>
    ELSE <<".","s","h">>

\* the path write_shell_script writes to
script_file(filename, f) == with_suffix(filename, script_suffix(f))

\* the text write_shell_script writes
script_text(args, f) ==
    (IF f = "bat" THEN <<"@","e","c","h","o"," ","o","f","f","\n">>
     ELSE IF f = "ps1"
          THEN <<"#"," ","P","o","w","e","r","S","h","e","l","l"," ","s","c","r","i","p","t","\n">>
     ELSE <<"#","!","/","b","i","n","/","s","h","\n">>)
    \o join_for(f, args) \o <<"\n">>

(***************************************************************************)
(* SpecMain: one run of main.  argv holds the parsed options, fmt is       *)
(* args.script_format, clipboard is what pyperclip.paste() returns (None:  *)
(* pyperclip is not installed), files is the working directory (a dict     *)
(* from path to text and executable bit), stdout the lines printed as      *)
(* <<fixed text, variable text>>.  What goes to stderr is not modelled.    *)
(* A write may fail with OSError, which main does not catch.               *)
(***************************************************************************)
CommandWithUrl == <<"c","u","r","l"," ","'","h","t","t","p","s",":","/","/","e","x","a","m","p","l","e",".","c","o","m","/","v","i","d","e","o",".","m","p","4","'"," ","-","H"," ","'","U","s","e","r","-","A","g","e","n","t",":"," ","K","o","d","i","/","1","9","'"," ","-","H"," ","'","O","t","h","e","r",":"," ","v","a","l","u","e","'">>
CommandWithoutUrl == <<"c","u","r","l"," ","-","H"," ","'","C","o","o","k","i","e",":"," ","a","=","b","'">>

MainCommands == {None, CommandWithUrl, CommandWithoutUrl}
Clipboards   == {None, <<>>, <<" ", "\n">>, CommandWithUrl}
Titles       == {None, <<"a",".","b",".","c">>, <<".">>, <<"M","y",":","C","l","i","p">>}
Outputs      == {None, <<"o","u","t",".","s","t","r","m">>}

InitMain ==
    /\ pc = "start"
    /\ argv \in [curl_command : MainCommands, title : Titles, output : Outputs,
                 yt_dlp : BOOLEAN, all_headers : BOOLEAN, dry_run : BOOLEAN]
    /\ fmt \in ScriptFormats
    /\ clipboard \in Clipboards
    /\ curl_command = None
    /\ base_output = None
    /\ files = <<>> /\ stdout = <<>> /\ rc = -1
    /\ frags = <<>> /\ allowed_headers = NoneList /\ include_all_headers = FALSE
    /\ joined = None
    /\ IdleSan /\ IdleData /\ IdleStrm /\ IdleArgs

\* "x" is falsy: None or the empty string
Falsy(x) == x = None \/ x = <<>>

\* lines 159-161; get_curl_from_clipboard raises ImportError without
\* pyperclip and ValueError on an empty or blank clipboard: main returns 2
ReadInput ==
    /\ pc = "start"
    /\ IF ~Falsy(argv.curl_command)
       THEN curl_command' = argv.curl_command /\ pc' = "read" /\ UNCHANGED <<stdout, rc>>
       ELSE IF clipboard = None \/ Strip(clipboard) = <<>>
            THEN pc' = "exited" /\ rc' = 2 /\ UNCHANGED <<curl_command, stdout>>
            ELSE /\ curl_command' = clipboard
                 /\ stdout' = Append(stdout, <<"Read curl command from clipboard.", <<>>>>)
                 /\ pc' = "read" /\ UNCHANGED rc
    /\ UNCHANGED <<sanVars, frags, allowed_headers, include_all_headers, dataVars,
                   strm_content, argsVars, joinVars, argv, clipboard, base_output, files>>

\* lines 163-165; parser.error exits the process with status 2
ParseInput ==
    /\ pc = "read"
    /\ LET r == parse_curl(curl_command, NoneList, argv.all_headers)
       IN  /\ url' = r[1] /\ headers' = r[2]
           /\ IF Falsy(r[1]) THEN pc' = "exited" /\ rc' = 2
              ELSE pc' = "parsed" /\ UNCHANGED rc
    /\ UNCHANGED <<sanVars, parseVars, strm_content, argsVars, joinVars,
                   argv, clipboard, base_output, files, stdout>>

\* lines 170-177
ComposeStrm ==
    /\ pc = "parsed"
    /\ base_output' = sanitize_filename(
           IF ~Falsy(argv.title) THEN argv.title
           ELSE IF ~Falsy(argv.output) THEN argv.output
           ELSE <<"o","u","t","p","u","t">>)
    /\ strm_content' = kodi_strm_content(url, headers)
    /\ stdout' = stdout \o << <<"Generated .strm content:", <<>>>>,
                             <<"", kodi_strm_content(url, headers)>> >>
    /\ pc' = "composed"
    /\ UNCHANGED <<sanVars, parseVars, dataVars, argsVars, joinVars,
                   argv, clipboard, files, rc>>

\* the .strm file is written although --dry-run is set
WriteStrmAlways ==
    /\ pc = "composed"
    /\ files' = DictSet(files, base_output \o <<".","s","t","r","m">>,
                        [text |-> strm_content, exec |-> FALSE])
    /\ stdout' = Append(stdout, <<".strm file written: ", base_output \o <<".","s","t","r","m">> >>)
    /\ pc' = "strm_done"
    /\ UNCHANGED <<sanVars, parseVars, dataVars, strm_content, argsVars, joinVars,
                   argv, clipboard, base_output, rc>>

\* lines 179-181, the write succeeds
WriteStrm ==
    /\ pc = "composed"
    /\ ~argv.dry_run
    /\ files' = DictSet(files, base_output \o <<".","s","t","r","m">>,
                        [text |-> strm_content, exec |-> FALSE])
    /\ stdout' = Append(stdout, <<".strm file written: ", base_output \o <<".","s","t","r","m">> >>)
    /\ pc' = "strm_done"
    /\ UNCHANGED <<sanVars, parseVars, dataVars, strm_content, argsVars, joinVars,
                   argv, clipboard, base_output, rc>>

\* line 180, the write raises OSError: the interpreter exits with status 1
WriteStrmFails ==
    /\ pc = "composed"
    /\ ~argv.dry_run
    /\ pc' = "exited" /\ rc' = 1
    /\ UNCHANGED <<sanVars, parseVars, dataVars, strm_content, argsVars, joinVars,
                   argv, clipboard, base_output, files, stdout>>

\* lines 182-183
SkipStrm ==
    /\ pc = "composed"
    /\ argv.dry_run
    /\ stdout' = Append(stdout, <<"(dry-run) .strm file not written", <<>>>>)
    /\ pc' = "strm_done"
    /\ UNCHANGED <<sanVars, parseVars, dataVars, strm_content, argsVars, joinVars,
                   argv, clipboard, base_output, files, rc>>

\* lines 185-195, and line 204 when no script is asked for
PrintCommand ==
    /\ pc = "strm_done"
    /\ IF argv.yt_dlp
       THEN /\ yt_args' = construct_yt_dlp_args(url, headers, base_output)
            /\ joined' = join_for(fmt, construct_yt_dlp_args(url, headers, base_output))
            /\ stdout' = stdout \o << <<"yt-dlp command:", <<>>>>,
                          <<"", join_for(fmt, construct_yt_dlp_args(url, headers, base_output))>> >>
            /\ pc' = "command_printed" /\ UNCHANGED rc
       ELSE /\ pc' = "exited" /\ rc' = 0
            /\ UNCHANGED <<yt_args, joined, stdout>>
    /\ UNCHANGED <<sanVars, parseVars, dataVars, strm_content, output_name, fmt,
                   argv, clipboard, base_output, files>>

\* lines 197-200 and 204: write_shell_script succeeds (its chmod may fail
\* silently).  with_suffix raising ValueError is caught by main: status 2
WriteScript ==
    /\ pc = "command_printed"
    /\ ~argv.dry_run
    /\ IF script_file(base_output, fmt) = ValueError
       THEN pc' = "exited" /\ rc' = 2 /\ UNCHANGED <<files, stdout>>
       ELSE /\ \E chmodOk \in BOOLEAN :
                 files' = DictSet(files, script_file(base_output, fmt),
                                  [text |-> script_text(yt_args, fmt),
                                   exec |-> (fmt = "sh" /\ chmodOk)])
            /\ stdout' = Append(stdout, <<"yt-dlp script written: ",
                                          with_suffix(base_output, <<".">> \o format_name(fmt))>>)
            /\ pc' = "exited" /\ rc' = 0
    /\ UNCHANGED <<sanVars, parseVars, dataVars, strm_content, argsVars, joinVars,
                   argv, clipboard, base_output>>

\* line 121, the write raises OSError: the interpreter exits with status 1
WriteScriptFails ==
    /\ pc = "command_printed"
    /\ ~argv.dry_run
    /\ script_file(base_output, fmt) # ValueError
    /\ pc' = "exited" /\ rc' = 1
    /\ UNCHANGED <<sanVars, parseVars, dataVars, strm_content, argsVars, joinVars,
                   argv, clipboard, base_output, files, stdout>>

\* lines 201-204
SkipScript ==
    /\ pc = "command_printed"
    /\ argv.dry_run
    /\ stdout' = Append(stdout, <<"(dry-run) script not written", <<>>>>)
    /\ pc' = "exited" /\ rc' = 0
    /\ UNCHANGED <<sanVars, parseVars, dataVars, strm_content, argsVars, joinVars,
                   argv, clipboard, base_output, files>>

NextMain == \/ ReadInput \/ ParseInput \/ ComposeStrm
            \/ WriteStrm \/ WriteStrmFails \/ SkipStrm
            \/ PrintCommand
            \/ WriteScript \/ WriteScriptFails \/ SkipScript

SpecMain == InitMain /\ [][NextMain]_vars

\* the paths of the working directory
Paths == {files[i][1] : i \in DOMAIN files}

\* C8: a run that ends in failure (no URL, no input, or a failure while
\* writing the script) has written no file: neither the .strm file nor
\* the script is left behind.
C8_FailureWritesNothing ==
    (pc = "exited" /\ rc # 0) => files = <<>>

\* C9: with --dry-run no file is created or modified, whatever the other
\* options and the input; a run that gets through still prints the
\* descriptor and, with --yt-dlp, the joined command.
C9_DryRunWritesNothing ==
    argv.dry_run =>
        /\ files = <<>>
        /\ (pc = "exited" /\ rc = 0) =>
              /\ \E i \in DOMAIN stdout : stdout[i] = <<"", kodi_strm_content(url, headers)>>
              /\ argv.yt_dlp =>
                    \E i \in DOMAIN stdout :
                        stdout[i] = <<"", join_for(fmt, construct_yt_dlp_args(url, headers, base_output))>>

\* a dry run with --yt-dlp has run to its end
C9_Witness ==
    /\ pc = "exited" /\ rc = 0
    /\ argv.dry_run /\ argv.yt_dlp
    /\ Len(stdout) >= 5

\* C10: a run with --yt-dlp and without --dry-run that succeeds has
\* written <base_output>.strm and <base_output>.<format>, base_output being
\* the sanitized label, and has printed the script path it wrote.
C10_SameBaseName ==
    (pc = "exited" /\ rc = 0 /\ argv.yt_dlp /\ ~argv.dry_run) =>
        /\ base_output \o <<".","s","t","r","m">> \in Paths
        /\ base_output \o <<".">> \o format_name(fmt) \in Paths
        /\ \E j \in DOMAIN stdout :
              /\ stdout[j][1] = "yt-dlp script written: "
              /\ \E i \in DOMAIN files :
                    files[i] = <<stdout[j][2], [text |-> script_text(yt_args, fmt), exec |-> files[i][2].exec]>>

\* the same, but for the script's name: what main prints is what it wrote
ScriptPathPrintedIsWritten ==
    (pc = "exited" /\ rc = 0 /\ argv.yt_dlp /\ ~argv.dry_run) =>
        /\ base_output \o <<".","s","t","r","m">> \in Paths
        /\ \E j \in DOMAIN stdout :
              /\ stdout[j][1] = "yt-dlp script written: "
              /\ stdout[j][2] \in Paths


====
